---- MODULE Spec2Model ----
(***************************************************************************)
(* fetchRuns of rungrep (src/src/index.ts, lines 217-301): the paginated,  *)
(* deduplicating, sliding-window retrieval of workflow runs.               *)
(*                                                                         *)
(* A run record is [id, created_at]; created_at is the creation time in    *)
(* whole seconds (the upstream's ISO-8601 strings are second-granular and  *)
(* well-formed).  new Date(created_at).getTime() is GetTime: milliseconds. *)
(* A Date that toISOString() writes into the query is represented by its   *)
(* millisecond value: the ISO form is an exact, order-preserving writing   *)
(* of it.                                                                  *)
(*                                                                         *)
(* per_page (100 in the source) and the cap (1000 in the source) are       *)
(* scaled down to PerPage and Cap, so that full pages, short pages and a   *)
(* saturated window are all reachable in a finite check.  Every guard is   *)
(* written against PerPage and Cap the way the source writes it against    *)
(* 100 and 1000.                                                           *)
(*                                                                         *)
(* Control positions of one fetchRuns call (pc):                           *)
(*   "window"  top of the outer while loop (line 232)                      *)
(*   "fetch"   a page request is in flight (await ghFetch, line 257)       *)
(*   "scan"    in the for loop over the records of the page (line 263)     *)
(*   "decide"  the pagination of the window has ended (line 283)           *)
(*   "done"    fetchRuns has returned allRuns (line 300)                   *)
(*   "failed"  fetchRuns has rejected (ghFetch threw, line 195)            *)
(*                                                                         *)
(* An HTTP response is [status, body]; the body of a 2xx response is the   *)
(* JSON text of a page.  ghFetch (lines 180-199) is GhFetch.               *)
(* A page is its total_count and its number of records (data); the         *)
(* records themselves are drawn one by one as the for loop reaches them    *)
(* (run), which gives the same runs of the program as drawing the whole    *)
(* page at once.                                                           *)
(*                                                                         *)
(* Further specifications: SpecTwo runs two invocations of fetchRuns that  *)
(* take turns at their awaits (other holds the locals of the suspended     *)
(* one); SpecCli runs the action of the program (lines 394-507) around a   *)
(* fetchRuns that settles in one step (cli holds the state of the action:  *)
(* "start", "resolve", "fetch", "report", "exited").                       *)
(* SpecFiltered calls fetchRuns with and without branch, status and        *)
(* workflow id (opts) and records the path of every request (lastPath);    *)
(* SpecAnswered is the arbitrary upstream without failing requests, under  *)
(* weak fairness: every ready continuation runs, every request is          *)
(* answered.                                                               *)
(***************************************************************************)
EXTENDS Integers, Sequences, FiniteSets, TLC

\* ---------------------------------------------------------------- bounds

\* Run ids the arbitrary upstream draws from: 1..MaxId.
MaxId == 2
\* Creation times, in seconds, the upstreams draw from: 1..MaxTime.
MaxTime == 2
\* Scaled per_page (100 in the source, index.ts:236 and :279).
PerPage == 2
\* Scaled upstream cap (1000 in the source, index.ts:285).
Cap == 4
\* Pages per window the arbitrary upstream answers with a full page.
MaxPages == 2
\* The second the since inputs sit at (on it, and half a second before it).
SinceSec == 2
\* Runs held by the static upstream.
StoreMax == 6

\* ----------------------------------------------------------------- values

None == << >>
Some(x) == << x >>
IsSome(o) == o /= << >>
Val(o) == o[1]

Ids == 1..MaxId
Times == 1..MaxTime
Records == [id : Ids, created_at : Times]

\* new Date(run.created_at).getTime(): milliseconds of a second-granular time.
MsPerSecond == 1000
GetTime(r) == r.created_at * MsPerSecond

Max(a, b) == IF a > b THEN a ELSE b
Min(a, b) == IF a < b THEN a ELSE b

\* The since inputs: absent, on a second, between two seconds.
Sinces == { None, Some(SinceSec * MsPerSecond), Some(SinceSec * MsPerSecond - 500) }

VARIABLES
  pc,              \* control position of the call
  since,           \* opts.since as milliseconds, or None
  allRuns,         \* the accumulator (line 227)
  seenIds,         \* ids already accumulated (line 228)
  upperBound,      \* upper bound of the window as milliseconds, or None (line 229)
  overallTotal,    \* best-known total over all windows (line 230)
  created,         \* the created query parameter of the window (lines 238-245)
  batchNewRuns,    \* records appended in the window (line 247)
  maxTotalCount,   \* maximum total_count of the window's pages (line 249)
  page,            \* page number of the request (line 250)
  hitSinceCutoff,  \* a record older than since was met (line 251)
  data,            \* the last response (line 257): total_count and length, or None
  idx,             \* number of records of the page the for loop has taken
  run,             \* the record the for loop took last in this pagination, or None
  window,          \* number of windows started so far
  peakTotal,       \* the highest total_count a page of the window reported
  store,           \* the runs the static upstream holds
  result,          \* how the promise of fetchRuns settled, or None while pending
  progress,        \* the arguments of the last onProgress call (line 261), or None
  inFlight,        \* HTTP requests issued (line 183) and not yet answered
  res,             \* the last HTTP response received (line 183), or None
  other,           \* a second invocation of fetchRuns, suspended: its id and locals
  cli,             \* the state of the CLI action (lines 394-507)
  opts,            \* repo and opts of the call: repo, branch, status, workflowId
  lastPath         \* the path of the last request issued (line 255), or None

vars == << pc, since, allRuns, seenIds, upperBound, overallTotal, created,
           batchNewRuns, maxTotalCount, page, hitSinceCutoff, data, idx, run,
           window, peakTotal, store, result, progress, inFlight, res,
           other, cli, opts, lastPath >>

\* --------------------------------------------------------- pure functions

\* Mutant of CreatedParam: a slid window asks with its upper bound only.
CreatedParamUpperOnly(s, u) ==
  IF IsSome(u) THEN [op |-> "le", lo |-> 0, hi |-> Val(u)]
  ELSE IF IsSome(s) THEN [op |-> "ge", lo |-> Val(s), hi |-> 0]
  ELSE [op |-> "none", lo |-> 0, hi |-> 0]

\* Mutant of CreatedParam: with since given the upper bound is left out.
CreatedParamSinceOnly(s, u) ==
  IF IsSome(s) THEN [op |-> "ge", lo |-> Val(s), hi |-> 0]
  ELSE IF IsSome(u) THEN [op |-> "le", lo |-> 0, hi |-> Val(u)]
  ELSE [op |-> "none", lo |-> 0, hi |-> 0]

\* The created parameter (lines 238-245): what the query string says.
CreatedParam(s, u) ==
  IF IsSome(s) /\ IsSome(u) THEN [op |-> "range", lo |-> Val(s), hi |-> Val(u)]
  ELSE IF IsSome(s) THEN [op |-> "ge", lo |-> Val(s), hi |-> 0]
  ELSE IF IsSome(u) THEN [op |-> "le", lo |-> 0, hi |-> Val(u)]
  ELSE [op |-> "none", lo |-> 0, hi |-> 0]

\* A number in a condition: 0 is falsy.
TruthyNumber(o) == IsSome(o) /\ Val(o) /= 0

\* basePath (lines 223-225).
BasePath(o) ==
  IF TruthyNumber(o.workflowId)
    THEN << "/repos/", o.repo, "/actions/workflows/", Val(o.workflowId), "/runs" >>
    ELSE << "/repos/", o.repo, "/actions/runs" >>

\* A parameter that is set when the option is truthy (lines 234-235).
ParamOf(o) == IF IsSome(o) /\ Val(o) /= "" THEN o ELSE None

\* Mutant of Path: branch and status are sent with page 1 only.
PathFilterOnPage1(o, c, p) ==
  [basePath |-> BasePath(o),
   branch |-> IF p = 1 THEN ParamOf(o.branch) ELSE None,
   status |-> IF p = 1 THEN ParamOf(o.status) ELSE None,
   per_page |-> PerPage, created |-> c, page |-> p]

\* The path of a page request (lines 223-225 and 233-255): the endpoint, the
\* filter of the caller, per_page, the created parameter of the window and
\* the page number.
Path(o, c, p) ==
  [basePath |-> BasePath(o), branch |-> ParamOf(o.branch), status |-> ParamOf(o.status),
   per_page |-> PerPage, created |-> c, page |-> p]

\* Body texts: the JSON text of a value, and a text that is not JSON.
\* res.json() (line 198) gives the value of a JSON text and rejects with a
\* SyntaxError on any other text.
Stringify(v) == << "json", v >>
IsJson(t) == t[1] = "json"
JsonParse(t) == t[2]

\* The error ghFetch throws (lines 69-79): name, status, path, and a message
\* made of the status and the body text.
GitHubApiError(status, body, path) ==
  [name |-> "GitHubApiError", status |-> status, path |-> path,
   message |-> << "GitHub API ", status, ": ", body >>]

\* Mutant of ResOk: only 4xx and 5xx count as failures.
ResOkBelow400(status) == status >= 200 /\ status < 400

\* res.ok (line 193): the status is in 200..299.
ResOk(status) == status >= 200 /\ status <= 299

\* Mutant of GhFetch: the error is built with the URL for the path.
GhFetchUrlInError(path, r) ==
  IF ~ResOk(r.status)
    THEN [kind |-> "throw",
          error |-> GitHubApiError(r.status, r.body, << "https://api.github.com", path >>)]
    ELSE IF ~IsJson(r.body)
      THEN [kind |-> "throw", error |-> [name |-> "SyntaxError"]]
      ELSE [kind |-> "return", value |-> JsonParse(r.body)]

\* ghFetch (lines 180-199) on the response r of its one request: the parsed
\* body, or a GitHubApiError thrown.
GhFetch(path, r) ==
  IF ~ResOk(r.status)
    THEN [kind |-> "throw", error |-> GitHubApiError(r.status, r.body, path)]
    ELSE IF ~IsJson(r.body)
      THEN [kind |-> "throw", error |-> [name |-> "SyntaxError"]]
      ELSE [kind |-> "return", value |-> JsonParse(r.body)]

\* Mutant of Settled: the response is not awaited before the code goes on.
SettledNotAwaited(n) == n

\* Requests in flight once the awaited response has arrived (lines 183, 257).
Settled(n) == n - 1

\* The arguments of the onProgress call of line 261: the length of the
\* accumulator at the call, which precedes the for loop, and the total.
Reported(all, total) == [fetched |-> Len(all), total |-> total]

\* Mutant of OlderThanSince: a second of tolerance below since.
OlderThanSinceLate(r, s) == IsSome(s) /\ GetTime(r) < Val(s) - MsPerSecond

\* The condition of line 264: the run is strictly older than since.
OlderThanSince(r, s) == IsSome(s) /\ GetTime(r) < Val(s)

\* Mutant of IsNew: no look-up in the seen ids.
IsNewAlways(r, seen) == TRUE

\* The condition of line 269: the id has not been seen.
IsNew(r, seen) == r.id \notin seen

\* Mutant of Push: the run is counted but not kept.
PushNothing(all, r) == all

\* Mutant of Push: the run is put at the front of the list.
PushFront(all, r) == << r >> \o all

\* allRuns.push(run) (line 271).
Push(all, r) == Append(all, r)

\* Mutant of LoopEnds: no break at a record older than since.
LoopEndsNoBreak(hit, i, n) == i = n

\* The for loop is left (lines 263, 267): all records taken, or break.
LoopEnds(hit, i, n) == hit \/ i = n

\* The oldest creation time of the accumulator (lines 288-292); all is not empty.
RECURSIVE OldestFrom(_, _, _)
OldestFrom(all, i, t) ==
  IF i > Len(all) THEN t
  ELSE OldestFrom(all, i + 1, IF GetTime(all[i]) < t THEN GetTime(all[i]) ELSE t)

\* Mutant of OldestTime: the last record taken for the oldest.
OldestTimeLast(all) == GetTime(all[Len(all)])

OldestTime(all) == OldestFrom(all, 2, GetTime(all[1]))

\* Mutant of SlideBound: the second is added, not subtracted.
SlideBoundPlus(all) == OldestTime(all) + MsPerSecond

\* Mutant of SlideBound: the oldest creation time verbatim, no second taken off.
SlideBoundVerbatim(all) == OldestTime(all)

\* The new upper bound (lines 293-295): one second before the oldest record.
\* setSeconds works on local time; the model takes a time zone with no clock
\* change at that instant, where it is a subtraction of 1000 ms.
SlideBound(all) == OldestTime(all) - MsPerSecond

\* Mutant of NewMaxTotal: the last total_count seen, not the maximum.
NewMaxTotalLast(maxTotal, total) == total

\* The maximum total_count of the window after a page (line 258).
NewMaxTotal(maxTotal, total) == IF total > maxTotal THEN total ELSE maxTotal

\* Mutant of MorePages: the pagination goes on until a page is empty.
MorePagesNonEmpty(n, hit) == ~hit /\ n > 0

\* Mutant of MorePages: the since cutoff does not end the pagination.
MorePagesIgnoreCutoff(n, hit) == ~(n < PerPage)

\* The pagination continues after a page of n records (lines 278-280).
MorePages(n, hit) == ~hit /\ ~(n < PerPage)

\* Mutant of StopSliding: a total of exactly Cap counts as saturated.
StopSlidingStrict(maxTotal, hit, new) == (maxTotal < Cap \/ hit) \/ new = 0

\* Mutant of StopSliding: no stop for a window that appended nothing.
StopSlidingNoStall(maxTotal, hit, new) == maxTotal <= Cap \/ hit

\* Mutant of StopSliding: the window is slid whenever the total is above the cap.
StopSlidingCapOnly(maxTotal, hit, new) == maxTotal <= Cap

\* Mutant of StopSliding: the since cutoff does not stop the sliding.
StopSlidingIgnoreCutoff(maxTotal, hit, new) == maxTotal <= Cap \/ new = 0

\* The window is not slid (lines 285-286).
StopSliding(maxTotal, hit, new) == (maxTotal <= Cap \/ hit) \/ new = 0

\* ---------------------------------------------------------------- actions

\* fetchRuns called as a function, with no CLI action around it.
NoCli == [pc |-> "off"]

InitCall ==
  /\ pc = "window"
  /\ since \in Sinces
  /\ allRuns = << >>
  /\ seenIds = {}
  /\ upperBound = None
  /\ overallTotal = 0
  /\ created = CreatedParam(None, None)
  /\ batchNewRuns = 0
  /\ maxTotalCount = 0
  /\ page = 1
  /\ hitSinceCutoff = FALSE
  /\ data = None
  /\ idx = 0
  /\ run = None
  /\ window = 0
  /\ peakTotal = 0
  /\ result = None
  /\ progress = None
  /\ inFlight = 0
  /\ res = None
  /\ lastPath = None

\* A call with no filter: all runs of the repository.
NoFilter ==
  [repo |-> << "o", "/", "r" >>, branch |-> None, status |-> None, workflowId |-> None]

Init == InitCall /\ store = {} /\ other = None /\ cli = NoCli /\ opts = NoFilter

\* Top of the outer loop (lines 232-255): build the parameters, reset the
\* window's counters, request page 1.
StartWindow ==
  /\ pc = "window"
  /\ created' = CreatedParam(since, upperBound)
  /\ batchNewRuns' = 0
  /\ maxTotalCount' = 0
  /\ page' = 1
  /\ hitSinceCutoff' = FALSE
  /\ peakTotal' = 0
  /\ window' = window + 1
  /\ inFlight' = inFlight + 1
  /\ lastPath' = Some(Path(opts, created', 1))
  /\ pc' = "fetch"
  /\ UNCHANGED << since, allRuns, seenIds, upperBound, overallTotal, data, idx, run,
                  store, result, progress, res, other, cli, opts >>

\* ghFetch returns a page with total_count total and n records (lines
\* 257-262): the totals are updated, the observer is called, the for loop is
\* entered.
ReceivePage(total, n) ==
  /\ pc = "fetch"
  /\ inFlight' = Settled(inFlight)
  /\ data' = Some([total_count |-> total, length |-> n])
  /\ maxTotalCount' = NewMaxTotal(maxTotalCount, total)
  /\ overallTotal' = IF maxTotalCount' > overallTotal THEN maxTotalCount' ELSE overallTotal
  /\ progress' = Some(Reported(allRuns, overallTotal'))
  /\ peakTotal' = Max(peakTotal, total)
  /\ idx' = 0
  /\ pc' = "scan"
  /\ UNCHANGED << since, allRuns, seenIds, upperBound, created, batchNewRuns,
                  page, hitSinceCutoff, run, window, store, result, other, cli,
                  opts, lastPath >>

\* ghFetch throws e (line 195): nothing in fetchRuns catches it, the promise
\* of fetchRuns is rejected with e.
Reject(e) ==
  /\ pc = "fetch"
  /\ inFlight' = Settled(inFlight)
  /\ result' = Some([kind |-> "rejected", error |-> e])
  /\ pc' = "failed"
  /\ UNCHANGED << since, allRuns, seenIds, upperBound, overallTotal, created,
                  batchNewRuns, maxTotalCount, page, hitSinceCutoff, data, idx,
                  run, window, peakTotal, store, progress, other, cli, opts, lastPath >>

\* One iteration of the for loop (lines 263-276) on the next record r.
ScanRun(r) ==
  /\ pc = "scan"
  /\ ~LoopEnds(hitSinceCutoff, idx, Val(data).length)
  /\ run' = Some(r)
  /\ idx' = idx + 1
  /\ IF OlderThanSince(r, since)
       THEN /\ hitSinceCutoff' = TRUE
            /\ UNCHANGED << allRuns, seenIds, batchNewRuns >>
       ELSE /\ hitSinceCutoff' = hitSinceCutoff
            /\ IF IsNew(r, seenIds)
                 THEN /\ seenIds' = seenIds \cup {r.id}
                      /\ allRuns' = Push(allRuns, r)
                      /\ batchNewRuns' = batchNewRuns + 1
                 ELSE UNCHANGED << allRuns, seenIds, batchNewRuns >>
  /\ UNCHANGED << pc, since, upperBound, overallTotal, created, maxTotalCount,
                  page, data, window, peakTotal, store, result, progress, inFlight,
                  res, other, cli, opts, lastPath >>

\* After the for loop (lines 278-281): request the next page, or end the
\* pagination of the window.
EndPage ==
  /\ pc = "scan"
  /\ LoopEnds(hitSinceCutoff, idx, Val(data).length)
  /\ IF MorePages(Val(data).length, hitSinceCutoff)
       THEN pc' = "fetch" /\ page' = page + 1 /\ run' = run
            /\ inFlight' = inFlight + 1
            /\ lastPath' = Some(Path(opts, created, page'))
       ELSE pc' = "decide" /\ page' = page /\ run' = None
            /\ inFlight' = inFlight /\ lastPath' = lastPath
  /\ UNCHANGED << since, allRuns, seenIds, upperBound, overallTotal, created,
                  batchNewRuns, maxTotalCount, hitSinceCutoff, data, idx,
                  window, peakTotal, store, result, progress, res, other, cli, opts >>

\* End of a window (lines 283-296): return, or slide the upper bound.  With an
\* empty accumulator oldestTime stays Infinity and toISOString throws RangeError.
Decide ==
  /\ pc = "decide"
  /\ IF StopSliding(maxTotalCount, hitSinceCutoff, batchNewRuns)
       THEN /\ pc' = "done" /\ upperBound' = upperBound
            /\ result' = Some([kind |-> "returned", value |-> allRuns])
       ELSE IF allRuns = << >>
         THEN /\ pc' = "failed" /\ upperBound' = upperBound
              /\ result' = Some([kind |-> "rejected", error |-> [name |-> "RangeError"]])
         ELSE /\ pc' = "window" /\ upperBound' = Some(SlideBound(allRuns))
              /\ result' = result
  /\ UNCHANGED << since, allRuns, seenIds, overallTotal, created, batchNewRuns,
                  maxTotalCount, page, hitSinceCutoff, data, idx, run, window,
                  peakTotal, store, progress, inFlight, res, other, cli, opts, lastPath >>

\* ------------------------------------------------------ arbitrary upstream

\* total_count values an arbitrary upstream reports: none, the cap, above it.
TotalCounts == { 0, Cap, Cap + 1 }

\* Page lengths: at most PerPage; from page MaxPages on the arbitrary
\* upstream sends short pages only.
PageLengths(p) == 0..(IF p < MaxPages THEN PerPage ELSE PerPage - 1)

\* Statuses an upstream answers with: success, a redirect, a client error.
Statuses == { 200, 304, 404 }

\* Body texts of the answers that are not pages: the JSON text of a message.
\* (Every body the upstreams of the model send is JSON.)
ErrorBodies == { Stringify([message |-> "Not Found"]) }

\* Any page: the response carries any total_count with any number of records,
\* and ghFetch returns it.
AnyPage ==
  /\ pc = "fetch"
  /\ \E status \in Statuses, total \in TotalCounts, n \in PageLengths(page) :
       LET r == [status |-> status,
                 body |-> Stringify([total_count |-> total, length |-> n])]
           out == GhFetch(Val(lastPath), r)
       IN /\ out.kind = "return"
          /\ res' = Some(r)
          /\ ReceivePage(out.value.total_count, out.value.length)

\* Any response that makes ghFetch throw.
ReceiveError ==
  /\ pc = "fetch"
  /\ \E status \in Statuses, body \in ErrorBodies :
       LET r == [status |-> status, body |-> body]
           out == GhFetch(Val(lastPath), r)
       IN /\ out.kind = "throw"
          /\ res' = Some(r)
          /\ Reject(out.error)

\* Any record.
AnyRun == pc = "scan" /\ \E r \in Records : ScanRun(r)

Next == StartWindow \/ AnyPage \/ ReceiveError \/ AnyRun \/ EndPage \/ Decide

Spec == Init /\ [][Next]_vars

\* The arbitrary upstream when every request succeeds, with a scheduler that
\* runs every continuation that is ready and an upstream that answers every
\* request.
NextAnswered == StartWindow \/ AnyPage \/ AnyRun \/ EndPage \/ Decide

SpecAnswered == Init /\ [][NextAnswered]_vars /\ WF_vars(NextAnswered)

\* -------------------------------------------------------- honest upstreams

\* What the created parameter asks for: '>=' , '<=' and 'a..b' are inclusive.
InRange(r, c) ==
  CASE c.op = "none" -> TRUE
    [] c.op = "ge" -> GetTime(r) >= c.lo
    [] c.op = "le" -> GetTime(r) <= c.hi
    [] c.op = "range" -> GetTime(r) >= c.lo /\ GetTime(r) <= c.hi

\* An upstream that answers each query newest-first, over all pages of the
\* query, with records inside the requested range only.
OrderedRun ==
  \E r \in Records :
    /\ InRange(r, created)
    /\ IsSome(run) => Val(run).created_at >= r.created_at
    /\ ScanRun(r)

NextOrdered == StartWindow \/ AnyPage \/ OrderedRun \/ EndPage \/ Decide

SpecOrdered == Init /\ [][NextOrdered]_vars

\* The filters of the caller: with and without branch, status and workflow.
FetchOptions ==
  [repo : { << "o", "/", "r" >> }, branch : { None, Some("main") },
   status : { None, Some("success") }, workflowId : { None, Some(7) }]

\* fetchRuns called with any of the filters, against the ordered upstream.
InitFiltered ==
  InitCall /\ store = {} /\ other = None /\ cli = NoCli /\ opts \in FetchOptions

SpecFiltered == InitFiltered /\ [][NextOrdered]_vars

\* The static upstream: a fixed set of runs with distinct ids, one query's
\* matches newest-first (runs of one second by descending id), the true
\* total_count, and no record past the first Cap of a query.
Stores ==
  { { [id |-> i, created_at |-> f[i]] : i \in 1..StoreMax } : f \in [1..StoreMax -> Times] }

Matching(st, c) == { r \in st : InRange(r, c) }

Before(r, q) ==
  r.created_at > q.created_at \/ (r.created_at = q.created_at /\ r.id >= q.id)

RECURSIVE SortNewestFirst(_)
SortNewestFirst(S) ==
  IF S = {} THEN << >>
  ELSE LET m == CHOOSE r \in S : \A q \in S : Before(r, q)
       IN << m >> \o SortNewestFirst(S \ {m})

Serve(st, c, p) ==
  LET m == SortNewestFirst(Matching(st, c))
      last == Min(Min(p * PerPage, Len(m)), Cap)
  IN [total_count |-> Len(m),
      workflow_runs |-> SubSeq(m, (p - 1) * PerPage + 1, last)]

StaticPage ==
  /\ pc = "fetch"
  /\ LET resp == Serve(store, created, page)
         r == [status |-> 200,
               body |-> Stringify([total_count |-> resp.total_count,
                                   length |-> Len(resp.workflow_runs)])]
         out == GhFetch(Val(lastPath), r)
     IN /\ out.kind = "return"
        /\ res' = Some(r)
        /\ ReceivePage(out.value.total_count, out.value.length)

StaticRun ==
  /\ pc = "scan"
  /\ idx < Val(data).length
  /\ ScanRun(Serve(store, created, page).workflow_runs[idx + 1])

InitStatic ==
  InitCall /\ store \in Stores /\ other = None /\ cli = NoCli /\ opts = NoFilter

NextStatic == StartWindow \/ StaticPage \/ StaticRun \/ EndPage \/ Decide

SpecStatic == InitStatic /\ [][NextStatic]_vars

\* -------------------------------------------------------- two invocations

\* fetchRuns run alone against the static upstream, as a function: the for
\* loop over the records of a page (lines 263-276) from record i on.  w holds
\* the locals the loop reads and writes.
RECURSIVE ScanFrom(_, _, _)
ScanFrom(w, runs, i) ==
  IF LoopEnds(w.hitSinceCutoff, i - 1, Len(runs)) THEN w
  ELSE IF OlderThanSince(runs[i], w.since)
    THEN [w EXCEPT !.hitSinceCutoff = TRUE]
    ELSE IF IsNew(runs[i], w.seenIds)
      THEN ScanFrom([w EXCEPT !.seenIds = @ \cup {runs[i].id},
                              !.allRuns = Push(@, runs[i]),
                              !.batchNewRuns = @ + 1], runs, i + 1)
      ELSE ScanFrom(w, runs, i + 1)

\* The pagination of a window from page p on (lines 253-281).
RECURSIVE PagesFrom(_, _, _)
PagesFrom(st, w, p) ==
  LET resp == Serve(st, w.created, p)
      w1 == ScanFrom([w EXCEPT !.maxTotalCount = NewMaxTotal(@, resp.total_count)],
                     resp.workflow_runs, 1)
  IN IF MorePages(Len(resp.workflow_runs), w1.hitSinceCutoff)
       THEN PagesFrom(st, w1, p + 1)
       ELSE w1

\* The windows from the one with upper bound upper on (lines 232-297).
RECURSIVE WindowsFrom(_, _, _, _, _)
WindowsFrom(st, s, all, seen, upper) ==
  LET w == PagesFrom(st, [since |-> s, created |-> CreatedParam(s, upper),
                          allRuns |-> all, seenIds |-> seen, batchNewRuns |-> 0,
                          maxTotalCount |-> 0, hitSinceCutoff |-> FALSE], 1)
  IN IF StopSliding(w.maxTotalCount, w.hitSinceCutoff, w.batchNewRuns)
       THEN w.allRuns
       ELSE WindowsFrom(st, s, w.allRuns, w.seenIds, Some(SlideBound(w.allRuns)))

\* The list fetchRuns returns for since s against the store st (lines 227-300).
FetchRunsAlone(st, s) == WindowsFrom(st, s, << >>, {}, None)

\* The locals of the invocation that is running.
Locals ==
  [pc |-> pc, since |-> since, allRuns |-> allRuns, seenIds |-> seenIds,
   upperBound |-> upperBound, overallTotal |-> overallTotal, created |-> created,
   batchNewRuns |-> batchNewRuns, maxTotalCount |-> maxTotalCount, page |-> page,
   hitSinceCutoff |-> hitSinceCutoff, data |-> data, idx |-> idx, run |-> run,
   window |-> window, peakTotal |-> peakTotal, result |-> result,
   progress |-> progress, inFlight |-> inFlight, res |-> res, lastPath |-> lastPath]

\* The locals of an invocation that has not started (lines 227-230).
InitialLocals(s) ==
  [pc |-> "window", since |-> s, allRuns |-> << >>, seenIds |-> {},
   upperBound |-> None, overallTotal |-> 0, created |-> CreatedParam(None, None),
   batchNewRuns |-> 0, maxTotalCount |-> 0, page |-> 1, hitSinceCutoff |-> FALSE,
   data |-> None, idx |-> 0, run |-> None, window |-> 0, peakTotal |-> 0,
   result |-> None, progress |-> None, inFlight |-> 0, res |-> None, lastPath |-> None]

\* Mutant of Resumed: the value is kept at module level, one for all invocations.
ResumedShared(own, current) == current

\* The value a local has when its invocation resumes: the one the invocation
\* left, whatever another invocation has in its local of that name (each call
\* of fetchRuns declares its own, lines 227-230 and 247-251).
Resumed(own, current) == own

\* The running invocation is suspended at its await (line 257) or has
\* settled, and the event loop runs the other one, which has not started or
\* whose response has arrived.
Switch ==
  /\ other /= None
  /\ pc \in {"fetch", "done", "failed"}
  /\ other.locals.pc \in {"window", "fetch"}
  /\ other' = [id |-> 3 - other.id, locals |-> Locals]
  /\ pc' = other.locals.pc
  /\ since' = other.locals.since
  /\ allRuns' = Resumed(other.locals.allRuns, allRuns)
  /\ seenIds' = Resumed(other.locals.seenIds, seenIds)
  /\ upperBound' = Resumed(other.locals.upperBound, upperBound)
  /\ overallTotal' = Resumed(other.locals.overallTotal, overallTotal)
  /\ created' = Resumed(other.locals.created, created)
  /\ batchNewRuns' = Resumed(other.locals.batchNewRuns, batchNewRuns)
  /\ maxTotalCount' = Resumed(other.locals.maxTotalCount, maxTotalCount)
  /\ page' = Resumed(other.locals.page, page)
  /\ hitSinceCutoff' = Resumed(other.locals.hitSinceCutoff, hitSinceCutoff)
  /\ data' = Resumed(other.locals.data, data)
  /\ idx' = Resumed(other.locals.idx, idx)
  /\ run' = Resumed(other.locals.run, run)
  /\ window' = Resumed(other.locals.window, window)
  /\ peakTotal' = Resumed(other.locals.peakTotal, peakTotal)
  /\ result' = Resumed(other.locals.result, result)
  /\ progress' = Resumed(other.locals.progress, progress)
  /\ inFlight' = Resumed(other.locals.inFlight, inFlight)
  /\ res' = Resumed(other.locals.res, res)
  /\ lastPath' = Resumed(other.locals.lastPath, lastPath)
  /\ UNCHANGED << store, cli, opts >>

\* The stores of the two invocations: ids in the order of creation.
StoresTwo ==
  { st \in Stores : \A r, q \in st : r.id < q.id => r.created_at <= q.created_at }

InitTwo ==
  /\ InitCall
  /\ store \in StoresTwo
  /\ other \in { [id |-> 2, locals |-> InitialLocals(s)] : s \in Sinces }
  /\ cli = NoCli
  /\ opts = NoFilter

NextTwo == StartWindow \/ StaticPage \/ StaticRun \/ EndPage \/ Decide \/ Switch

SpecTwo == InitTwo /\ [][NextTwo]_vars

\* ------------------------------------------------------------------- CLI
\*
\* The action of the program (lines 394-507).  Option values and names are
\* strings written as sequences of characters, so that the regular
\* expressions, parseInt, toLowerCase and includes are computed on them.
\* The CLI's times are milliseconds on a clock that reads Now.

\* runStatuses (lines 9-24).
RunStatuses ==
  { "completed", "action_required", "cancelled", "failure", "neutral", "skipped",
    "stale", "success", "timed_out", "in_progress", "queued", "requested",
    "waiting", "pending" }

\* A string of characters in a condition: the empty string is falsy.
Truthy(o) == IsSome(o) /\ Val(o) /= << >>

\* /^[^/]+\/[^/]+$/ (line 414): one slash, with something on both sides.
ValidRepo(repo) ==
  \E i \in 2..(Len(repo) - 1) :
    /\ repo[i] = "/"
    /\ \A j \in DOMAIN repo : j /= i => repo[j] /= "/"

Digits == << "0", "1", "2", "3", "4", "5", "6", "7", "8", "9" >>
IsDigit(ch) == \E d \in DOMAIN Digits : Digits[d] = ch
DigitValue(ch) == (CHOOSE d \in DOMAIN Digits : Digits[d] = ch) - 1

\* The value of the longest run of digits of str from position i on, after acc.
RECURSIVE DigitsFrom(_, _, _)
DigitsFrom(str, i, acc) ==
  IF i > Len(str) \/ ~IsDigit(str[i]) THEN acc
  ELSE DigitsFrom(str, i + 1, acc * 10 + DigitValue(str[i]))

\* parseInt(str, 10) (lines 134, 423) of a string without leading blanks: an
\* optional sign and the longest run of digits that follows; NaN (None)
\* when no digit follows.  What comes after the digits is ignored.
ParseInt(str) ==
  LET signed == Len(str) > 0 /\ str[1] \in {"-", "+"}
      first == IF signed THEN 2 ELSE 1
  IN IF first > Len(str) \/ ~IsDigit(str[first]) THEN None
     ELSE IF signed /\ str[1] = "-" THEN Some(0 - DigitsFrom(str, first, 0))
     ELSE Some(DigitsFrom(str, first, 0))

\* The clock of the CLI, and the lengths setHours and setDate move it by
\* (lines 139-145) on days without a clock change.
Now == 1000000000
HourMs == 3600000
DayMs == 24 * HourMs

\* /^(\d+)([hdw])$/ (line 132).
IsDuration(value) ==
  /\ Len(value) >= 2
  /\ value[Len(value)] \in {"h", "d", "w"}
  /\ \A i \in 1..(Len(value) - 1) : IsDigit(value[i])

\* new Date(value).getTime() (lines 151-152) for the date strings of the
\* model: a year alone is a date, anything else here is not (NaN, None).
DateParse(value) ==
  IF value = << "2", "0", "2", "6" >> THEN Some(Now - 10 * DayMs) ELSE None

\* parseSince (lines 131-159): the time of the cutoff, or None when it ends
\* the process with exit code 2.
ParseSince(value, now) ==
  IF IsDuration(value)
    THEN LET amount == DigitsFrom(value, 1, 0)
             unit == value[Len(value)]
         IN Some(now - amount * (CASE unit = "h" -> HourMs
                                   [] unit = "d" -> DayMs
                                   [] unit = "w" -> 7 * DayMs))
    ELSE DateParse(value)

\* toLowerCase on the letters of the model.
ToLowerChar(ch) ==
  CASE ch = "C" -> "c" [] ch = "D" -> "d" [] ch = "E" -> "e"
    [] ch = "I" -> "i" [] ch = "P" -> "p" [] OTHER -> ch
ToLowerCase(str) == [i \in DOMAIN str |-> ToLowerChar(str[i])]

\* String.prototype.includes (line 477).
Includes(hay, needle) ==
  \E i \in 0..(Len(hay) - Len(needle)) : SubSeq(hay, i + 1, i + Len(needle)) = needle

\* display_title and html_url of the runs of the model, by id.
DisplayTitle(r) == IF r.id % 2 = 1 THEN << "D", "e", "p" >> ELSE << "d", "o", "c" >>
HtmlUrl(r) == << "https://github.com/runs/", r.id >>

\* The inputs of the CLI.
Names == { << "d" >>, << "E", "P" >>, << "z" >> }
Repos == { << "o", "/", "r" >>, << "o", "r" >>, << "o", "/", "r", "/" >> }
StatusOpts == { None, Some("success"), Some("bogus") }
TopOpts ==
  { None, Some(<< "1" >>), Some(<< "2" >>), Some(<< "0" >>), Some(<< "x" >>),
    Some(<< "1", "x" >>) }
SinceOpts ==
  { None, Some(<< "2", "d" >>), Some(<< "2", "0", "2", "6" >>), Some(<< "x" >>),
    Some(<< >>) }
ActionOpts == { None, Some(<< "c", "i" >>), Some(<< "x" >>) }

CliOptions ==
  [name : Names, repo : Repos, status : StatusOpts, top : TopOpts, since : SinceOpts,
   action : ActionOpts, last : BOOLEAN, open : BOOLEAN, json : BOOLEAN]

\* The CLI before the action runs.
CliStart(o) ==
  [pc |-> "start", opts |-> o, exitCode |-> None, stderr |-> None, token |-> None,
   top |-> None, sinceDate |-> None, workflowId |-> None, calls |-> << >>,
   fetchArgs |-> None, runs |-> None, matches |-> None, printed |-> None,
   opened |-> None]

\* process.exit(code) after msg was written to stderr.
Exited(c, code, msg) ==
  [c EXCEPT !.pc = "exited", !.exitCode = Some(code), !.stderr = Some(msg)]

\* Lines 407-436: the checks of status, repo, top and since, in this order.
\* The first that fails names its message; otherwise top and sinceDate.
Validated(o, now) ==
  IF IsSome(o.status) /\ Val(o.status) /= "" /\ Val(o.status) \notin RunStatuses
    THEN [ok |-> FALSE, msg |-> "Error: Invalid status"]
  ELSE IF ~ValidRepo(o.repo)
    THEN [ok |-> FALSE, msg |-> "Error: Invalid repo format"]
  ELSE
    LET top == IF Truthy(o.top) THEN ParseInt(Val(o.top)) ELSE None
    IN IF Truthy(o.top) /\ (top = None \/ Val(top) < 1)
         THEN [ok |-> FALSE, msg |-> "Error: Invalid --top value"]
       ELSE
         LET sinceValue == IF IsSome(o.since) THEN o.since
                           ELSE IF IsSome(top) THEN None ELSE Some(<< "7", "d" >>)
             parsed == IF Truthy(sinceValue)
                         THEN ParseSince(Val(sinceValue), now) ELSE None
         IN IF Truthy(sinceValue) /\ parsed = None
              THEN [ok |-> FALSE, msg |-> "Error: Invalid --since value"]
              ELSE [ok |-> TRUE, top |-> top, sinceDate |-> parsed]

\* What the caller's frame leaves alone.
callVars ==
  << pc, since, allRuns, seenIds, upperBound, overallTotal, created, batchNewRuns,
     maxTotalCount, page, hitSinceCutoff, data, idx, run, window, peakTotal, result,
     progress, inFlight, res, opts, lastPath >>

\* getToken (lines 161-178): where a token comes from, if from anywhere.
TokenSources == { "env", "gh", "none" }

\* The action up to its first await (lines 395-441): validation, then the token.
Validate ==
  /\ cli.pc = "start"
  /\ \E src \in TokenSources :
       LET v == Validated(cli.opts, Now)
       IN cli' =
            IF ~v.ok THEN Exited(cli, 2, v.msg)
            ELSE IF src = "none" THEN Exited(cli, 2, "Error: No GITHUB_TOKEN")
            ELSE [cli EXCEPT !.top = v.top, !.sinceDate = v.sinceDate,
                             !.token = Some(src),
                             !.pc = IF Truthy(cli.opts.action) THEN "resolve" ELSE "fetch"]
  /\ UNCHANGED << callVars, store, other >>

\* The workflows the upstream lists.
Workflows == << [id |-> 7, name |-> << "C", "I" >>] >>

\* resolveWorkflowId (lines 201-215) on the list it was served.
ResolveWorkflowId(workflows, workflowName) ==
  LET needle == ToLowerCase(workflowName)
      hits == { i \in DOMAIN workflows : ToLowerCase(workflows[i].name) = needle }
  IN IF hits = {} THEN None
     ELSE Some(workflows[CHOOSE i \in hits : \A j \in hits : i <= j].id)

\* Lines 444-453 and the catch of lines 463-469: the workflow is looked up.
ResolveWorkflow ==
  /\ cli.pc = "resolve"
  /\ \E status \in Statuses :
       LET path == << "/repos/", cli.opts.repo, "/actions/workflows" >>
           out == GhFetch(path, [status |-> status,
                                 body |-> Stringify([workflows |-> Workflows])])
           c == [cli EXCEPT !.calls = Append(@, "workflows")]
       IN cli' =
            IF out.kind = "throw" THEN Exited(c, 1, "Error: GitHub API")
            ELSE LET id == ResolveWorkflowId(out.value.workflows, Val(cli.opts.action))
                 IN IF id = None THEN Exited(c, 1, "Error: Workflow not found")
                    ELSE [c EXCEPT !.workflowId = id, !.pc = "fetch"]
  /\ UNCHANGED << callVars, store, other >>

\* The lists fetchRuns may return to the CLI: no id twice.
CliRuns == { r \in Records : r.created_at = 1 }
RunLists ==
  { q \in UNION { [1..n -> CliRuns] : n \in 0..MaxId } :
      \A i, j \in DOMAIN q : q[i].id = q[j].id => i = j }

\* How the promise of fetchRuns may settle for the CLI: a list, or the
\* GitHubApiError of a request that was not answered with 2xx.
FetchOutcomes ==
  { [kind |-> "returned", value |-> q] : q \in RunLists }
    \cup { [kind |-> "rejected",
             error |-> GitHubApiError(st, Stringify([message |-> "Not Found"]), "runs")] :
             st \in { x \in Statuses : ~ResOk(x) } }

\* Lines 455-472: fetchRuns is called and awaited.  A GitHubApiError ends the
\* process with code 1; any other error is thrown again (line 469) and
\* leaves the action as a rejection.
AwaitFetchRuns ==
  /\ cli.pc = "fetch"
  /\ \E out \in FetchOutcomes :
       LET c == [cli EXCEPT !.calls = Append(@, "runs"),
                            !.fetchArgs = Some([status |-> cli.opts.status,
                                                workflowId |-> cli.workflowId,
                                                since |-> cli.sinceDate])]
       IN cli' =
            IF out.kind = "rejected"
              THEN IF out.error.name = "GitHubApiError"
                     THEN Exited(c, 1, "Error: GitHub API")
                     ELSE [c EXCEPT !.pc = "thrown"]
              ELSE [c EXCEPT !.runs = Some(out.value), !.pc = "report"]
  /\ UNCHANGED << callVars, store, other >>

\* Mutant of OpenAllowed: any match at all lets --open go on.
OpenAllowedSome(n) == n >= 1

\* The test of line 493.
OpenAllowed(n) == n = 1

\* Mutant of Limited: --top is looked at before --last.
LimitedTopFirst(found, last, top) ==
  IF IsSome(top) THEN SubSeq(found, 1, Min(Val(top), Len(found)))
  ELSE IF last THEN << found[1] >>
  ELSE found

\* The matches after --last and --top (lines 486-490).
Limited(found, last, top) ==
  IF last THEN << found[1] >>
  ELSE IF IsSome(top) THEN SubSeq(found, 1, Min(Val(top), Len(found)))
  ELSE found

\* Lines 474-506: filter by name, limit, print, open; the action returns and
\* the process ends with code 0 unless process.exit was called.
Report ==
  /\ cli.pc = "report"
  /\ LET o == cli.opts
         needle == ToLowerCase(o.name)
         Matches(r) == Includes(ToLowerCase(DisplayTitle(r)), needle)
         found == SelectSeq(Val(cli.runs), Matches)
     IN cli' =
          IF Len(found) = 0
            THEN Exited([cli EXCEPT !.matches = Some(found)], 1, "No matching runs found.")
          ELSE
            LET matches == Limited(found, o.last, cli.top)
                c == [cli EXCEPT !.matches = Some(matches),
                                 !.printed = Some([runs |-> matches, json |-> o.json])]
            IN IF ~o.open
                 THEN [c EXCEPT !.pc = "exited", !.exitCode = Some(0)]
               ELSE IF OpenAllowed(Len(matches))
                 THEN [c EXCEPT !.pc = "exited", !.exitCode = Some(0),
                                !.opened = Some(HtmlUrl(matches[1]))]
               ELSE Exited(c, 1, "Error: --open requires exactly one match")
  /\ UNCHANGED << callVars, store, other >>

InitCli ==
  /\ InitCall /\ since = None /\ store = {} /\ other = None /\ opts = NoFilter
  /\ cli \in { CliStart(o) : o \in CliOptions }

NextCli == Validate \/ ResolveWorkflow \/ AwaitFetchRuns \/ Report

SpecCli == InitCli /\ [][NextCli]_vars

\* ----------------------------------------------------------------- claims

Range(q) == { q[i] : i \in DOMAIN q }
IdsOf(q) == { q[i].id : i \in DOMAIN q }

\* C1: the accumulator, and so the list fetchRuns returns, never holds two
\* records with the same id, whatever pages and windows the upstream answers.
C1_NoDuplicateIds ==
  \A i, j \in DOMAIN allRuns : allRuns[i].id = allRuns[j].id => i = j

\* A second window answered only with ids already accumulated, and returned.
C1_Witness ==
  /\ pc = "done" /\ window >= 2 /\ batchNewRuns = 0 /\ ~hitSinceCutoff
  /\ Val(data).length > 0 /\ idx = Val(data).length /\ Len(allRuns) > 0

\* C2: against the static upstream fetchRuns returns every run of the store
\* that matches (created_at >= since when since is given).
C2_Complete ==
  pc = "done" =>
    \A r \in store :
      (IsSome(since) => GetTime(r) >= Val(since)) => r \in Range(allRuns)

\* C3: with since given, every accumulated record has created_at >= since,
\* at every step and in the returned list.
C3_SinceLowerBound ==
  IsSome(since) => \A i \in DOMAIN allRuns : GetTime(allRuns[i]) >= Val(since)

\* A second window met a record older than since after appending, and returned.
C3_Witness ==
  /\ pc = "done" /\ IsSome(since) /\ hitSinceCutoff /\ window >= 2
  /\ batchNewRuns > 0 /\ idx > 0

\* C4: with an upstream that answers each query newest-first and inside the
\* requested range, the returned list is sorted by created_at descending.
C4_SortedNewestFirst ==
  pc = "done" =>
    \A i \in 1..Len(allRuns) - 1 :
      allRuns[i].created_at >= allRuns[i + 1].created_at

\* Two windows each appended one record and the merged list was returned.
C4_Witness ==
  /\ pc = "done" /\ window = 2 /\ batchNewRuns = 1 /\ Len(allRuns) = 2
  /\ allRuns[1].created_at > allRuns[2].created_at

MinCreatedMs ==
  CHOOSE t \in { allRuns[i].created_at * 1000 : i \in DOMAIN allRuns } :
    \A i \in DOMAIN allRuns : t <= allRuns[i].created_at * 1000

\* C5: a window that ends with a maximum total_count above the cap, without
\* the since cutoff and with a new record, is followed by exactly one next
\* window, whose upper bound is the minimum created_at of the accumulator
\* minus one second.
C5_SlideToOldestMinusOne ==
  [][ /\ (pc = "decide" /\ maxTotalCount > Cap /\ ~hitSinceCutoff /\ batchNewRuns > 0)
         => (pc' = "window" /\ window' = window
             /\ upperBound' = Some(MinCreatedMs - 1000))
      /\ (pc = "window")
         => (pc' = "fetch" /\ window' = window + 1 /\ page' = 1
             /\ upperBound' = upperBound)
      /\ (window' /= window) => pc = "window" ]_vars

\* Two windows have slid; the oldest record is one of the first window.
C5_Witness ==
  /\ pc = "window" /\ window = 2 /\ Len(allRuns) = 2
  /\ allRuns[1].created_at < allRuns[2].created_at
  /\ upperBound = Some(allRuns[1].created_at * 1000 - 1000)

\* C6: a window whose maximum total_count is at most the cap (also exactly
\* the cap) makes fetchRuns return the accumulator; nothing is requested after.
C6_NoSlideAtOrBelowCap ==
  [][ /\ (pc = "decide" /\ maxTotalCount <= Cap)
         => (pc' = "done" /\ allRuns' = allRuns /\ window' = window)
      /\ pc /= "done" ]_vars

C6_Witness ==
  /\ pc = "done" /\ maxTotalCount = Cap /\ batchNewRuns > 0 /\ ~hitSinceCutoff

\* C7: a window that appended no new record makes fetchRuns return the
\* accumulator unchanged, also when its total_count is above the cap.
C7_NoSlideWithoutNewRecords ==
  [][ (pc = "decide" /\ batchNewRuns = 0)
        => (pc' = "done" /\ allRuns' = allRuns /\ upperBound' = upperBound
            /\ window' = window) ]_vars

\* A slid window got records, all seen before, with a total above the cap.
C7_Witness ==
  /\ pc = "done" /\ batchNewRuns = 0 /\ maxTotalCount > Cap /\ ~hitSinceCutoff
  /\ window >= 2 /\ Val(data).length > 0 /\ idx = Val(data).length

\* C8: the slide decision uses the maximum total_count of the window's pages:
\* a window with a new record and no since cutoff slides if and only if some
\* page of it reported more than the cap, whatever the last page reported.
C8_SlideOnMaximumTotal ==
  [][ /\ (pc = "decide" /\ ~hitSinceCutoff /\ batchNewRuns > 0
          /\ peakTotal > Cap)
         => (pc' = "window" /\ IsSome(upperBound'))
      /\ (pc = "decide" /\ pc' = "window") => peakTotal > Cap ]_vars

\* An earlier page reported more than the cap, the last reported 0; it slid.
C8_Witness ==
  /\ pc = "window" /\ window >= 1 /\ IsSome(upperBound)
  /\ page >= 2 /\ peakTotal > Cap /\ Val(data).total_count = 0

\* C9: once a page holds fewer than PerPage records no further page of that
\* window is requested, whatever total_count is reported: a page request in
\* the same window follows a full page only.
C9_ShortPageEndsPagination ==
  [][ /\ (pc = "scan" /\ pc' /= "scan" /\ Val(data).length < PerPage)
         => (pc' = "decide" /\ page' = page)
      /\ (pc' = "fetch" /\ window' = window)
         => (pc = "scan" /\ Val(data).length = PerPage /\ page' = page + 1)
      /\ (pc = "decide") => pc' \in {"done", "window", "failed"} ]_vars

\* A short, non-empty first page with a total_count above the cap ended it.
C9_Witness ==
  /\ pc = "decide" /\ page = 1 /\ Val(data).total_count > Cap
  /\ Val(data).length = PerPage - 1 /\ idx = Val(data).length

\* C10: a record strictly older than since is not appended, ends the scan
\* of its page (no record after it is taken) and ends the pagination (no
\* further page is requested); the records before it, a record created
\* exactly at since included, are appended when their id is new.
C10_CutoffMidPage ==
  [][ /\ (pc = "scan" /\ idx' = idx + 1) =>
           LET r == Val(run')
           IN IF IsSome(since) /\ r.created_at * 1000 < Val(since)
                THEN hitSinceCutoff' /\ allRuns' = allRuns
                ELSE /\ hitSinceCutoff' = hitSinceCutoff
                     /\ allRuns' = IF r.id \in IdsOf(allRuns)
                                     THEN allRuns ELSE Append(allRuns, r)
      /\ (pc = "scan" /\ hitSinceCutoff) =>
           (pc' = "decide" /\ allRuns' = allRuns /\ idx' = idx)
      /\ (pc = "fetch" \/ pc = "decide" \/ pc = "window") => allRuns' = allRuns ]_vars

\* A full first page: a record created exactly at since was appended, the
\* next record was older than since and was not.
C10_Witness ==
  /\ pc = "scan" /\ hitSinceCutoff /\ IsSome(since) /\ page = 1 /\ window = 1
  /\ Val(data).length = PerPage /\ idx = 2 /\ batchNewRuns = 1
  /\ GetTime(allRuns[1]) = Val(since)
  /\ GetTime(Val(run)) < Val(since)

\* C11: a window whose pagination ended at a record older than since makes
\* fetchRuns return without sliding, also with a maximum total_count above
\* the cap and new records appended: no upper bound is set, no window follows.
C11_NoSlideAfterCutoff ==
  [][ (pc = "decide" /\ hitSinceCutoff)
        => (pc' = "done" /\ allRuns' = allRuns /\ upperBound' = upperBound
            /\ window' = window) ]_vars

\* A first window over the cap appended a record, met an older one, returned.
C11_Witness ==
  /\ pc = "done" /\ hitSinceCutoff /\ maxTotalCount > Cap /\ batchNewRuns > 0
  /\ window = 1 /\ upperBound = None

\* C12: a non-2xx response to a page request makes fetchRuns reject with the
\* GitHubApiError of that response (its status, its body, the path of the
\* request); the promise never carries a list, and after the rejection the
\* call takes no step: no request is issued again.
C12_ErrorAbortsRetrieval ==
  [][ /\ (inFlight' < inFlight
          /\ ~(Val(res').status >= 200 /\ Val(res').status <= 299))
         => /\ pc' = "failed" /\ inFlight' = 0
            /\ result' = Some([kind |-> "rejected",
                  error |-> [name |-> "GitHubApiError",
                             status |-> Val(res').status,
                             path |-> Val(lastPath),
                             message |-> << "GitHub API ", Val(res').status, ": ",
                                            Val(res').body >>]])
      /\ pc /= "failed" ]_vars

\* The second window had accumulated records when a page request got a 404.
C12_Witness ==
  /\ pc = "failed" /\ window = 2 /\ Len(allRuns) > 0 /\ inFlight = 0
  /\ Val(res).status = 404
  /\ Val(result).kind = "rejected" /\ Val(result).error.name = "GitHubApiError"

\* C13: while a window is in progress its created parameter is the closed
\* range since..upper with both bounds, >=since with since only, <=upper
\* with an upper bound only, absent with neither; the first window has no
\* upper bound.
C13_CreatedEncoding ==
  pc \in {"fetch", "scan", "decide"} =>
    /\ (since /= None /\ upperBound /= None)
         => created = [op |-> "range", lo |-> since[1], hi |-> upperBound[1]]
    /\ (since /= None /\ upperBound = None)
         => created = [op |-> "ge", lo |-> since[1], hi |-> 0]
    /\ (since = None /\ upperBound /= None)
         => created = [op |-> "le", lo |-> 0, hi |-> upperBound[1]]
    /\ (since = None /\ upperBound = None) => created.op = "none"
    /\ window = 1 => upperBound = None

\* The second page of a slid window is requested with since and an upper bound.
C13_Witness ==
  /\ pc = "fetch" /\ window = 2 /\ page = 2 /\ since /= None /\ upperBound /= None
  /\ created.op = "range"

\* C14: when the processing of a page is over, the last call of the observer
\* carried the length of the accumulator, the records of that page included,
\* and the best-known total; so it does when fetchRuns has returned.
C14_ProgressIncludesPage ==
  pc \in {"decide", "done"} =>
    /\ IsSome(progress)
    /\ Val(progress).fetched = Len(allRuns)
    /\ Val(progress).total = overallTotal

\* C15: at most one request is in flight, and a request is issued only when
\* none is in flight and the records of the previous response are merged:
\* at the top of a window, or after the last record of a full page.
C15_OneRequestInFlight ==
  [][ /\ inFlight' \in {0, 1}
      /\ (inFlight' > inFlight)
         => /\ inFlight = 0
            /\ pc = "window" \/ (pc = "scan" /\ idx = Val(data).length)
      /\ (pc = "scan" /\ idx < Val(data).length) => inFlight' = inFlight ]_vars

\* The request of a second page is in flight after a full page was merged.
C15_Witness ==
  /\ pc = "fetch" /\ inFlight = 1 /\ page = 2 /\ idx = PerPage
  /\ Len(allRuns) = PerPage

\* C17: a 2xx response with a JSON body makes ghFetch return the parsed
\* body; a non-2xx response makes it throw a GitHubApiError with the status,
\* the body text (in the message) and the path of the request; each call of
\* ghFetch issues one request, which its settlement ends.
C17_GhFetchOutcome ==
  [][ /\ (pc' = "fetch" /\ pc /= "fetch") => inFlight' = inFlight + 1
      /\ (pc = "fetch" /\ pc' /= "fetch")
         => /\ inFlight = 1 /\ inFlight' = 0 /\ IsSome(res')
            /\ LET r == Val(res')
                   ok == r.status >= 200 /\ r.status <= 299
               IN /\ (ok /\ r.body[1] = "json")
                       => (pc' = "scan" /\ data' = Some(r.body[2]))
                  /\ ~ok
                       => /\ pc' = "failed"
                          /\ Val(result').kind = "rejected"
                          /\ Val(result').error.name = "GitHubApiError"
                          /\ Val(result').error.status = r.status
                          /\ Val(result').error.message[4] = r.body
                          /\ Val(result').error.path = Val(lastPath) ]_vars

\* A redirect was answered to the request of a second page.
C17_Witness ==
  /\ pc = "failed" /\ page = 2 /\ Val(res).status = 304
  /\ Val(result).error.name = "GitHubApiError"
  /\ Val(result).error.path.page = 2

\* C16: of two invocations against one upstream whose steps interleave at
\* their awaits, each returns the list it returns when run alone: the result
\* of the running one and the result the suspended one holds are those of
\* fetchRuns run alone with that invocation's since.
C16_InvocationsIndependent ==
  /\ pc = "done" => /\ allRuns = FetchRunsAlone(store, since)
                    /\ result = Some([kind |-> "returned", value |-> allRuns])
  /\ (other /= None /\ other.locals.pc = "done")
       => other.locals.allRuns = FetchRunsAlone(store, other.locals.since)

\* Both invocations were in their second window with records accumulated,
\* one running, one awaiting a response, and they hold different lists.
C16_Witness ==
  /\ other /= None /\ pc = "scan" /\ window = 2 /\ Len(allRuns) > 0
  /\ other.locals.pc = "fetch" /\ other.locals.window = 2
  /\ Len(other.locals.allRuns) > 0
  /\ other.locals.allRuns /= allRuns

\* A string of digits that writes an integer of at least 1.
IsPositiveInteger(str) ==
  /\ Len(str) >= 1
  /\ \A i \in DOMAIN str : str[i] \in {"0", "1", "2", "3", "4", "5", "6", "7", "8", "9"}
  /\ \E i \in DOMAIN str : str[i] /= "0"

\* C18: once the action has validated its input, a status outside
\* runStatuses, a repo that is not org/repo, a --top that is not a positive
\* integer or a --since that is neither a duration nor a date has ended the
\* process with exit code 2, with no token acquired and no request issued.
C18_InvalidInputExits2 ==
  cli.pc \notin {"off", "start"} =>
    LET o == cli.opts
        badStatus == IsSome(o.status) /\ Val(o.status) \notin RunStatuses
        badRepo == ~ValidRepo(o.repo)
        badTop == IsSome(o.top) /\ ~IsPositiveInteger(Val(o.top))
        badSince == /\ IsSome(o.since) /\ ~IsDuration(Val(o.since))
                    /\ DateParse(Val(o.since)) = None
    IN (badStatus \/ badRepo \/ badTop \/ badSince)
         => /\ cli.pc = "exited" /\ cli.exitCode = Some(2)
            /\ cli.token = None /\ cli.calls = << >>

\* C19: a run of the CLI that has ended has exit code 0 exactly when
\* matching runs were found, 1 exactly when no run matched or the workflow
\* was not found, 2 exactly when the input was invalid or no token was at
\* hand; there is no other exit code.
C19_ExitCodePairing ==
  cli.pc = "exited" =>
    LET found == IsSome(cli.matches) /\ Len(Val(cli.matches)) > 0
        noMatch == IsSome(cli.runs) /\ IsSome(cli.matches) /\ Val(cli.matches) = << >>
        noWorkflow == cli.stderr = Some("Error: Workflow not found")
        invalid == IsSome(cli.stderr)
                   /\ Val(cli.stderr) \in { "Error: Invalid status",
                                             "Error: Invalid repo format",
                                             "Error: Invalid --top value",
                                             "Error: Invalid --since value",
                                             "Error: No GITHUB_TOKEN" }
    IN /\ cli.exitCode \in { Some(0), Some(1), Some(2) }
       /\ (cli.exitCode = Some(0)) <=> found
       /\ (cli.exitCode = Some(1)) <=> (noMatch \/ noWorkflow)
       /\ (cli.exitCode = Some(2)) <=> invalid

\* C20: when the CLI has ended, the browser was opened if and only if --open
\* was given and the matches left after --last and --top are exactly one,
\* and it was opened on that match; with --open and another number of
\* matches no browser was opened, the exit code is 1 and the matches, when
\* there are any, were printed.
C20_OpenNeedsOneMatch ==
  cli.pc = "exited" =>
    /\ IsSome(cli.opened)
         <=> (cli.opts.open /\ IsSome(cli.matches) /\ Len(Val(cli.matches)) = 1)
    /\ IsSome(cli.opened) => cli.opened = Some(HtmlUrl(Val(cli.matches)[1]))
    /\ (cli.opts.open /\ IsSome(cli.matches) /\ Len(Val(cli.matches)) /= 1)
         => /\ cli.opened = None
            /\ cli.exitCode = Some(1)
            /\ Len(Val(cli.matches)) > 0
                 => cli.printed = Some([runs |-> Val(cli.matches), json |-> cli.opts.json])

\* With --open and neither --last nor --top two runs matched: they were
\* printed, no browser was opened and the exit code is 1.
C20_Witness ==
  /\ cli.pc = "exited" /\ cli.opts.open /\ ~cli.opts.last /\ cli.opts.top = None
  /\ IsSome(cli.matches) /\ Len(Val(cli.matches)) = 2
  /\ cli.opened = None /\ cli.exitCode = Some(1)
  /\ IsSome(cli.printed) /\ Len(Val(cli.printed).runs) = 2

\* The positions of runs whose display_title contains the name, letter case
\* aside.
MatchingPositions(runs, name) ==
  { i \in DOMAIN runs :
      Includes(ToLowerCase(DisplayTitle(runs[i])), ToLowerCase(name)) }

\* The k-th position of a set of positions, in ascending order.
KthPosition(S, k) == CHOOSE i \in S : Cardinality({ j \in S : j < i }) = k - 1

\* C21: what the CLI prints are matches in the order fetchRuns returned them:
\* with --last the first match alone, with --top N and no --last the first
\* min(N, number of matches) matches, with neither all matches; with both
\* --last and --top, --last decides.
C21_PrintedMatches ==
  IsSome(cli.printed) =>
    LET runs == Val(cli.runs)
        hits == MatchingPositions(runs, cli.opts.name)
        n == Cardinality(hits)
        want == IF cli.opts.last THEN 1
                ELSE IF IsSome(cli.top) THEN Min(Val(cli.top), n)
                ELSE n
        out == Val(cli.printed).runs
    IN /\ Len(out) = want
       /\ \A k \in 1..want : out[k] = runs[KthPosition(hits, k)]

\* --last and --top 2 were given and two runs matched: the first was printed.
C21_Witness ==
  /\ cli.pc = "exited" /\ cli.opts.last /\ cli.top = Some(2)
  /\ IsSome(cli.runs) /\ Len(Val(cli.runs)) = 2
  /\ Cardinality(MatchingPositions(Val(cli.runs), cli.opts.name)) = 2
  /\ IsSome(cli.printed) /\ Val(cli.printed).runs = << Val(cli.runs)[1] >>

\* The length in milliseconds of amount units h, d or w.
DurationMs(amount, unit) ==
  amount * (IF unit = "h" THEN 3600000 ELSE IF unit = "d" THEN 86400000 ELSE 604800000)

\* C22: the CLI calls fetchRuns with since = 7 days before now when neither
\* --since nor --top is given, with no since when --top is given without
\* --since, and with the parsed value of --since whenever --since is given.
C22_SinceArgument ==
  IsSome(cli.fetchArgs) =>
    LET o == cli.opts
        arg == Val(cli.fetchArgs).since
    IN /\ (o.since = None /\ o.top = None) => arg = Some(Now - DurationMs(7, "d"))
       /\ (o.since = None /\ o.top /= None) => arg = None
       /\ (o.since /= None) =>
            LET v == Val(o.since)
            IN /\ arg /= None
               /\ IF IsDuration(v)
                    THEN arg = Some(Now - DurationMs(DigitsFrom(v, 1, 0), v[Len(v)]))
                    ELSE arg = DateParse(v)

\* The since part of a created parameter, or None when it has none.
SincePart(c) == IF c.op \in {"ge", "range"} THEN Some(c.lo) ELSE None

\* C23: across the requests of one call the endpoint path, branch, status
\* and per_page are identical, and are those of the caller's filter; only
\* the page number and the created range differ from one request to the
\* next, and the since part of the created range never changes.
C23_FilterFixed ==
  [][ IsSome(lastPath') =>
        LET q == Val(lastPath')
        IN /\ q.per_page = PerPage
           /\ q.branch = opts.branch /\ q.status = opts.status
           /\ SincePart(q.created) = since
           /\ IsSome(lastPath) =>
                LET p == Val(lastPath)
                IN /\ q.basePath = p.basePath
                   /\ q.branch = p.branch /\ q.status = p.status
                   /\ q.per_page = p.per_page
                   /\ SincePart(q.created) = SincePart(p.created) ]_vars

\* The first page of a slid window is requested with branch, status, workflow
\* and since given.
C23_Witness ==
  /\ pc = "fetch" /\ window = 2 /\ page = 1 /\ IsSome(since)
  /\ Len(allRuns) > 0
  /\ opts.branch = Some("main") /\ opts.status = Some("success")
  /\ opts.workflowId = Some(7)
  /\ Val(lastPath).page = 1 /\ Val(lastPath).created.op = "range"
  /\ Val(lastPath).branch = Some("main")

\* C24 as stated: the upper bound of a window is exclusive; every run the
\* upstream serves for a window with upper bound U was created strictly
\* before U.
C24_UpperBoundExclusive ==
  (pc \in {"fetch", "scan"} /\ IsSome(upperBound) /\ IsSome(run))
    => GetTime(Val(run)) < Val(upperBound)

\* C24, amended: the upper bound of a window is inclusive; the query of a
\* window with upper bound U is '<=U' or 'since..U', and every run the
\* upstream serves for it was created at U or before.
C24_UpperBoundInclusive ==
  (pc \in {"fetch", "scan", "decide"} /\ IsSome(upperBound)) =>
    /\ created.op \in {"le", "range"}
    /\ created.hi = Val(upperBound)
    /\ IsSome(run) => GetTime(Val(run)) <= Val(upperBound)

\* A run created exactly at the upper bound of a slid window was served and
\* appended.
C24_Witness ==
  /\ pc = "scan" /\ window >= 2 /\ IsSome(upperBound) /\ IsSome(run)
  /\ GetTime(Val(run)) = Val(upperBound)
  /\ batchNewRuns > 0 /\ allRuns[Len(allRuns)] = Val(run)

\* C25 as stated: every slide sets an upper bound strictly earlier than the
\* upper bound of the window that just ended, whatever the upstream served.
C25_UpperBoundStrictlyDecreases ==
  [][ (pc = "decide" /\ pc' = "window")
        => /\ IsSome(upperBound')
           /\ IsSome(upperBound) => Val(upperBound') < Val(upperBound) ]_vars

\* C25, amended: every slide sets an upper bound, never later than the upper
\* bound of the window that just ended, and strictly earlier when the
\* records that window appended were created at or before its upper bound
\* (the upstream served what the query asked for).
C25_UpperBoundDecreases ==
  [][ (pc = "decide" /\ pc' = "window")
        => /\ IsSome(upperBound')
           /\ IsSome(upperBound) =>
                /\ Val(upperBound') <= Val(upperBound)
                /\ (\A i \in (Len(allRuns) - batchNewRuns + 1)..Len(allRuns) :
                      allRuns[i].created_at * 1000 <= Val(upperBound))
                     => Val(upperBound') < Val(upperBound) ]_vars

\* The second window appended a run created at its upper bound, and the
\* second slide set an upper bound one second earlier.
C25_Witness ==
  /\ pc = "window" /\ window = 2 /\ Len(allRuns) = 2
  /\ allRuns[2].created_at = allRuns[1].created_at - 1
  /\ upperBound = Some(allRuns[2].created_at * 1000 - 1000)

\* C26: in every window the pages are requested in the order 1, 2, 3, ...
\* from page 1 on, and page n+1 is requested if and only if page n held
\* PerPage records none of which was older than since, whatever total_count
\* the page reported and whether or not it appended a record.
C26_PageOrder ==
  [][ /\ (pc' = "fetch" /\ pc /= "fetch")
         => /\ Val(lastPath').page = page'
            /\ \/ pc = "window" /\ window' = window + 1 /\ page' = 1
               \/ pc = "scan" /\ window' = window /\ page' = page + 1
      /\ (pc = "scan" /\ pc' /= "scan")
         => (pc' = "fetch"
               <=> /\ Val(data).length = PerPage
                   /\ idx = PerPage
                   /\ ~(IsSome(since) /\ Val(run).created_at * 1000 < Val(since)))
      /\ (pc = "fetch" /\ pc' /= "fetch") => page' = page ]_vars

\* Page 2 of a slid window is requested after a full page 1 that reported a
\* total_count of 0 and appended nothing.
C26_Witness ==
  /\ pc = "fetch" /\ window = 2 /\ page = 2 /\ Val(lastPath).page = 2
  /\ batchNewRuns = 0 /\ Val(data).total_count = 0 /\ Val(data).length = PerPage

\* The number of slides made so far: a slide leaves the call at the top of
\* the loop before the next window is counted.
Slides == IF pc = "window" THEN window ELSE window - 1

\* C27: when every request succeeds and every pagination reaches a short
\* page, fetchRuns eventually returns; the number of slides never exceeds
\* the number of distinct ids accumulated, each slide having needed a record
\* not seen before.
C27_Terminates ==
  /\ <>(pc = "done" /\ result = Some([kind |-> "returned", value |-> allRuns]))
  /\ [](Slides <= Cardinality(seenIds))
  /\ [][ (pc = "decide" /\ pc' = "window") => batchNewRuns > 0 ]_vars

\* fetchRuns returned after as many slides as there are ids.
C27_Witness ==
  /\ pc = "done" /\ window = MaxId + 1 /\ Cardinality(seenIds) = MaxId
  /\ IsSome(result)

\* The list p is the beginning of the list q.
IsPrefix(p, q) == Len(p) <= Len(q) /\ SubSeq(q, 1, Len(p)) = p

\* C28: at every step the seen ids are exactly the ids of the records in the
\* accumulator, and the accumulator changes by appending only: the list of a
\* step is a prefix of the list of the next, and so of the returned list.
C28_AppendOnly ==
  /\ [](seenIds = { allRuns[i].id : i \in DOMAIN allRuns })
  /\ [][ /\ IsPrefix(allRuns, allRuns')
         /\ Len(allRuns') <= Len(allRuns) + 1
         /\ pc' = "done" => result' = Some([kind |-> "returned", value |-> allRuns]) ]_vars

\* A record was appended by a second window behind the records of the first,
\* and the list was returned.
C28_Witness ==
  /\ pc = "done" /\ window = 2 /\ batchNewRuns = 1 /\ Len(allRuns) = MaxId
  /\ seenIds = 1..MaxId
  /\ Val(result).value = allRuns

\* C29: whenever a new upper bound is computed the accumulator holds at least
\* one record: every upper bound is one second before the creation time of
\* an accumulated record, and the computation never fails on the initial
\* Infinity.
C29_SlideHasRecord ==
  /\ (pc = "decide" /\ maxTotalCount > Cap /\ ~hitSinceCutoff /\ batchNewRuns /= 0)
       => Len(allRuns) >= 1
  /\ IsSome(upperBound)
       => \E i \in DOMAIN allRuns : Val(upperBound) = (allRuns[i].created_at - 1) * 1000
  /\ IsSome(result) /\ Val(result).kind = "rejected"
       => Val(result).error.name /= "RangeError"

\* The first window appended one record and slid.
C29_Witness ==
  /\ pc = "window" /\ window = 1 /\ Len(allRuns) = 1 /\ batchNewRuns = 1
  /\ upperBound = Some((allRuns[1].created_at - 1) * 1000)

\* C30: every window queried with both bounds has since <= upper bound; no
\* slide produces an inverted range since..upper.
C30_RangeNotInverted ==
  (pc \in {"fetch", "scan", "decide"} /\ created.op = "range")
    => /\ created.lo = Val(since) /\ created.hi = Val(upperBound)
       /\ created.lo <= created.hi

====
